---- MODULE Spec2Model ----
(***************************************************************************)
(* A model of the two-player "capture" board game of src/main.go.          *)
(*                                                                         *)
(* Strings are sequences of byte values (65 is "A", 49 is "1", 10 is the   *)
(* newline).  Go slices and maps are functions; a Go struct is a record    *)
(* with the struct's field names.  The Board value owned by main is the    *)
(* variable board; the two calls of main's loop, board.Render() and        *)
(* board.Turn(), are the two actions.                                      *)
(***************************************************************************)
EXTENDS Integers, Sequences, FiniteSets, TLC

VARIABLES board, pc, parsed, input, prompted, screen, nApplied,
          stdin, offset, nReads

vars == <<board, pc, parsed, input, prompted, screen, nApplied,
          stdin, offset, nReads>>

\* The state of a piped standard input: its bytes, the number of bytes read
\* from it so far, and the number of reads that returned a line.  The three
\* stay as they start when stdin is a terminal, where each line is typed at
\* the prompt and read whole.
pipe == <<stdin, offset, nReads>>

(***************************************************************************)
(* Bounds of the model.                                                    *)
(***************************************************************************)
\* Applied moves explored by Spec.
MaxMoves == 4
\* Spec's players type cells of the MaxCell x MaxCell corner A1.. of the board.
MaxCell == 2
\* Applied moves explored by SpecFill after the playable grid is exhausted.
ExtraMoves == 2
\* Applied moves explored by SpecParse.
ParseMoves == 1
\* Lines of a piped standard input explored by SpecPipe.
MaxPipeLines == 2

(***************************************************************************)
(* Program constants.                                                      *)
(***************************************************************************)
gridSize == 9

\* The buffer size of the reader bufio.NewReader returns.
defaultBufSize == 4096

Available == 0
Player1Occupied == 1
Player2Occupied == 2
Block == 3

\* The values the error result of validateInput takes: nil and the four
\* distinct messages of lines 135, 140, 143 and 147.
ErrNil == "nil"
ErrNotPosition == "that is not a valid position"
ErrNotSerious == "are you taking this serious"
ErrRow == "row does not exist on the board"
ErrColumn == "column does not exist on the board"

(***************************************************************************)
(* Library functions the program calls.                                    *)
(***************************************************************************)
IsSpace(c) == c \in {9, 10, 11, 12, 13, 32}

RECURSIVE TrimLeft(_)
TrimLeft(s) ==
    IF s # <<>> /\ IsSpace(Head(s)) THEN TrimLeft(Tail(s)) ELSE s

RECURSIVE TrimRight(_)
TrimRight(s) ==
    IF s # <<>> /\ IsSpace(s[Len(s)])
    THEN TrimRight(SubSeq(s, 1, Len(s) - 1))
    ELSE s

TrimSpace(s) == TrimRight(TrimLeft(s))

IsDigit(c) == c \in 48..57

RECURSIVE DecVal(_)
DecVal(s) ==
    IF s = <<>> THEN 0
    ELSE 10 * DecVal(SubSeq(s, 1, Len(s) - 1)) + (s[Len(s)] - 48)

\* strconv.Atoi: an optional sign, then one or more decimal digits.
Atoi(s) ==
    LET signed == s # <<>> /\ s[1] \in {43, 45}
        digits == IF signed THEN Tail(s) ELSE s
    IN  IF digits = <<>> \/ \E k \in 1..Len(digits) : ~IsDigit(digits[k])
        THEN [val |-> 0, err |-> TRUE]
        ELSE [val |-> IF signed /\ s[1] = 45 THEN 0 - DecVal(digits)
                      ELSE DecVal(digits),
              err |-> FALSE]

\* strconv.Itoa of a non-negative number.
RECURSIVE Itoa(_)
Itoa(n) ==
    IF n < 10 THEN <<48 + n>> ELSE Itoa(n \div 10) \o <<48 + (n % 10)>>

(***************************************************************************)
(* The lookup tables built by init().                                      *)
(***************************************************************************)
columnMap == [i \in 0..(gridSize - 1) |-> <<65 + i>>]

columnMapInverted_OffByOne ==
    [letter \in {<<65 + i>> : i \in 0..(gridSize - 1)} |-> letter[1] - 65]

columnMapInverted ==
    [letter \in {<<65 + i>> : i \in 0..(gridSize - 1)} |-> (letter[1] - 65) + 1]

(***************************************************************************)
(* Cells and the board.                                                    *)
(***************************************************************************)
newCell == [Status |-> Available]

newRow == [j \in 0..(gridSize - 1) |-> newCell]

newBoard ==
    [Rows          |-> [i \in 0..(gridSize - 1) |-> newRow],
     playerOneTurn |-> TRUE,
     playerOneRow  |-> 0,
     playerOneCol  |-> 0,
     playerTwoRow  |-> 0,
     playerTwoCol  |-> 0]

\* Cell.Render panics on a Status outside the four constants.
CellRenderPanics(c) ==
    c.Status \notin {Available, Player1Occupied, Player2Occupied, Block}

CellRender(c) ==
    CASE c.Status = Available       -> <<>>
      [] c.Status = Player1Occupied -> <<88>>
      [] c.Status = Player2Occupied -> <<79>>
      [] c.Status = Block           -> <<126>>
      [] OTHER                      -> <<>>

\* The rows Board.Render appends to the table, header row and index column
\* included.
Render(b) ==
    [i \in 0..(gridSize - 1) |->
        [j \in 0..(gridSize - 1) |->
            IF i = 0 /\ j = 0 THEN <<>>
            ELSE IF i = 0 THEN columnMap[j - 1]
            ELSE IF j = 0 THEN Itoa(i)
            ELSE CellRender(b.Rows[i][j])]]

RenderPanics(b) ==
    \E i \in 1..(gridSize - 1), j \in 1..(gridSize - 1) :
        CellRenderPanics(b.Rows[i][j])

\* The player named in the prompt of captureInput.
playerTurn(b) == IF b.playerOneTurn THEN "Player One" ELSE "Player Two"

(***************************************************************************)
(* validateInput, move and Turn.                                           *)
(***************************************************************************)
validateInput_RowZero(text) ==
    IF Len(text) # 2
    THEN [row |-> -1, column |-> -1, err |-> ErrNotPosition]
    ELSE LET letter == <<text[1]>>
             conv   == Atoi(<<text[2]>>)
             row    == conv.val
         IN  IF conv.err
             THEN [row |-> -1, column |-> -1, err |-> ErrNotSerious]
             ELSE IF row > gridSize \/ row < 0
             THEN [row |-> -1, column |-> -1, err |-> ErrRow]
             ELSE IF letter \notin DOMAIN columnMapInverted
             THEN [row |-> -1, column |-> -1, err |-> ErrColumn]
             ELSE [row |-> row, column |-> columnMapInverted[letter],
                   err |-> ErrNil]

validateInput(text) ==
    IF Len(text) # 2
    THEN [row |-> -1, column |-> -1, err |-> ErrNotPosition]
    ELSE LET letter == <<text[1]>>
             conv   == Atoi(<<text[2]>>)
             row    == conv.val
         IN  IF conv.err
             THEN [row |-> -1, column |-> -1, err |-> ErrNotSerious]
             ELSE IF row > gridSize \/ row < 1
             THEN [row |-> -1, column |-> -1, err |-> ErrRow]
             ELSE IF letter \notin DOMAIN columnMapInverted
             THEN [row |-> -1, column |-> -1, err |-> ErrColumn]
             ELSE [row |-> row, column |-> columnMapInverted[letter],
                   err |-> ErrNil]

\* An index expression b.Rows[r][c] of Go panics outside the slice.
InRows(r, c) == r \in 0..(gridSize - 1) /\ c \in 0..(gridSize - 1)

BlockPrevious_Always(b) ==
    IF b.playerOneTurn
    THEN [b.Rows EXCEPT ![b.playerOneRow][b.playerOneCol] = [Status |-> Block]]
    ELSE [b.Rows EXCEPT ![b.playerTwoRow][b.playerTwoCol] = [Status |-> Block]]

\* The block move leaves behind on the mover's recorded cell (lines 156-158
\* and 165-167), or nothing before the mover's first move.
BlockPrevious(b) ==
    IF b.playerOneTurn
    THEN IF b.playerOneRow > 0
         THEN [b.Rows EXCEPT ![b.playerOneRow][b.playerOneCol] =
                                 [Status |-> Block]]
         ELSE b.Rows
    ELSE IF b.playerTwoRow > 0
         THEN [b.Rows EXCEPT ![b.playerTwoRow][b.playerTwoCol] =
                                 [Status |-> Block]]
         ELSE b.Rows

move_NoBlock(b, moveToRow, moveToColumn) ==
    IF ~InRows(moveToRow, moveToColumn)
    THEN [board |-> b, panic |-> TRUE]
    ELSE IF b.playerOneTurn
    THEN [board |-> [b EXCEPT
                       !.Rows = [b.Rows EXCEPT ![moveToRow][moveToColumn] =
                                    [Status |-> Player1Occupied]],
                       !.playerOneRow = moveToRow,
                       !.playerOneCol = moveToColumn],
          panic |-> FALSE]
    ELSE [board |-> [b EXCEPT
                       !.Rows = [b.Rows EXCEPT ![moveToRow][moveToColumn] =
                                    [Status |-> Player2Occupied]],
                       !.playerTwoRow = moveToRow,
                       !.playerTwoCol = moveToColumn],
          panic |-> FALSE]

move_UnknownStatus(b, moveToRow, moveToColumn) ==
    LET blocked == BlockPrevious(b)
    IN  IF ~InRows(moveToRow, moveToColumn)
        THEN [board |-> [b EXCEPT !.Rows = blocked], panic |-> TRUE]
        ELSE IF b.playerOneTurn
        THEN [board |-> [b EXCEPT
                           !.Rows = [blocked EXCEPT ![moveToRow][moveToColumn] =
                                        [Status |-> Player1Occupied]],
                           !.playerOneRow = moveToRow,
                           !.playerOneCol = moveToColumn],
              panic |-> FALSE]
        ELSE [board |-> [b EXCEPT
                           !.Rows = [blocked EXCEPT ![moveToRow][moveToColumn] =
                                        [Status |-> Block + 1]],
                           !.playerTwoRow = moveToRow,
                           !.playerTwoCol = moveToColumn],
              panic |-> FALSE]

move_BlocksOpponent(b, moveToRow, moveToColumn) ==
    LET blocked == BlockPrevious([b EXCEPT !.playerOneTurn = ~b.playerOneTurn])
    IN  IF ~InRows(moveToRow, moveToColumn)
        THEN [board |-> [b EXCEPT !.Rows = blocked], panic |-> TRUE]
        ELSE IF b.playerOneTurn
        THEN [board |-> [b EXCEPT
                           !.Rows = [blocked EXCEPT ![moveToRow][moveToColumn] =
                                        [Status |-> Player1Occupied]],
                           !.playerOneRow = moveToRow,
                           !.playerOneCol = moveToColumn],
              panic |-> FALSE]
        ELSE [board |-> [b EXCEPT
                           !.Rows = [blocked EXCEPT ![moveToRow][moveToColumn] =
                                        [Status |-> Player2Occupied]],
                           !.playerTwoRow = moveToRow,
                           !.playerTwoCol = moveToColumn],
              panic |-> FALSE]

\* move: the previous cell is blocked first; the write of the destination
\* then panics when the destination is outside Rows, and the block stays.
move(b, moveToRow, moveToColumn) ==
    LET blocked == BlockPrevious(b)
    IN  IF ~InRows(moveToRow, moveToColumn)
        THEN [board |-> [b EXCEPT !.Rows = blocked], panic |-> TRUE]
        ELSE IF b.playerOneTurn
        THEN [board |-> [b EXCEPT
                           !.Rows = [blocked EXCEPT ![moveToRow][moveToColumn] =
                                        [Status |-> Player1Occupied]],
                           !.playerOneRow = moveToRow,
                           !.playerOneCol = moveToColumn],
              panic |-> FALSE]
        ELSE [board |-> [b EXCEPT
                           !.Rows = [blocked EXCEPT ![moveToRow][moveToColumn] =
                                        [Status |-> Player2Occupied]],
                           !.playerTwoRow = moveToRow,
                           !.playerTwoCol = moveToColumn],
              panic |-> FALSE]

\* No Available cell is left on the playable grid (rows and columns 1..8).
Exhausted(b) ==
    \A i \in 1..(gridSize - 1), j \in 1..(gridSize - 1) :
        b.Rows[i][j].Status # Available

Turn_NoFlip(b, line) ==
    LET v == validateInput(TrimSpace(line))
    IN  IF v.err # ErrNil
        THEN [board |-> b, v |-> v, panic |-> FALSE]
        ELSE LET m == move(b, v.row, v.column)
             IN  [board |-> m.board, v |-> v, panic |-> m.panic]

Turn_FlipFirst(b, line) ==
    LET v == validateInput(TrimSpace(line))
        f == [b EXCEPT !.playerOneTurn = ~b.playerOneTurn]
    IN  IF v.err # ErrNil
        THEN [board |-> f, v |-> v, panic |-> FALSE]
        ELSE LET m == move(b, v.row, v.column)
             IN  IF m.panic
                 THEN [board |-> m.board, v |-> v, panic |-> TRUE]
                 ELSE [board |-> [m.board EXCEPT
                                    !.playerOneTurn = ~b.playerOneTurn],
                       v |-> v, panic |-> FALSE]

Turn_Finished(b, line) ==
    LET v == validateInput(TrimSpace(line))
    IN  IF v.err # ErrNil \/ Exhausted(b)
        THEN [board |-> b,
              v |-> IF v.err # ErrNil THEN v
                    ELSE [row |-> -1, column |-> -1, err |-> ErrNotPosition],
              panic |-> FALSE]
        ELSE LET m == move(b, v.row, v.column)
             IN  IF m.panic
                 THEN [board |-> m.board, v |-> v, panic |-> TRUE]
                 ELSE [board |-> [m.board EXCEPT
                                    !.playerOneTurn = ~b.playerOneTurn],
                       v |-> v, panic |-> FALSE]

\* Turn on the line captureInput returned: the board after the call, the
\* locals row, column, err, and whether move panicked before Turn returned.
Turn(b, line) ==
    LET v == validateInput(TrimSpace(line))
    IN  IF v.err # ErrNil
        THEN [board |-> b, v |-> v, panic |-> FALSE]
        ELSE LET m == move(b, v.row, v.column)
             IN  IF m.panic
                 THEN [board |-> m.board, v |-> v, panic |-> TRUE]
                 ELSE [board |-> [m.board EXCEPT
                                    !.playerOneTurn = ~b.playerOneTurn],
                       v |-> v, panic |-> FALSE]

mainAfterTurn_Finish(b, e) ==
    IF e = ErrNil /\ Exhausted(b) THEN "exit" ELSE "render"

mainAfterTurn_ExitOnError(b, e) ==
    IF e = ErrNotPosition THEN "exit" ELSE "render"

mainAfterTurn_SkipRender(b, e) ==
    IF e = ErrNil THEN "turn" ELSE "render"

\* main's for loop after Turn returned e on board b: the error is printed
\* and, either way, control goes back to the top of the loop.
mainAfterTurn(b, e) == "render"

(***************************************************************************)
(* The lines the players type.                                             *)
(***************************************************************************)
\* The tokens of the MaxCell x MaxCell corner, each ended by a newline.
CellLines ==
    {<<l, d, 10>> : l \in 65..(64 + MaxCell), d \in 49..(48 + MaxCell)}

\* End of input, "A", "A9", "I1", "Z1", "a1", "A0", "Ax" and " B1" ended by
\* "\r\n".
OtherLines ==
    { <<>>, <<65, 10>>, <<65, 57, 10>>, <<73, 49, 10>>, <<90, 49, 10>>,
      <<97, 49, 10>>, <<65, 48, 10>>, <<65, 120, 10>>,
      <<32, 66, 49, 13, 10>> }

Lines == CellLines \cup OtherLines

(***************************************************************************)
(* The program: main.                                                      *)
(***************************************************************************)
\* The state main starts in when the bytes of stream are piped to it.
InitOn(stream) ==
    /\ board = newBoard
    /\ pc = "render"
    /\ parsed = [row |-> 0, column |-> 0, err |-> "none"]
    /\ input = <<>>
    /\ prompted = ""
    /\ screen = <<>>
    /\ nApplied = 0
    /\ stdin = stream
    /\ offset = 0
    /\ nReads = 0

Init == InitOn(<<>>)

\* board.Render() at the top of the loop.
MainRender ==
    /\ pc = "render"
    /\ IF RenderPanics(board)
       THEN pc' = "panic" /\ UNCHANGED screen
       ELSE pc' = "turn" /\ screen' = Render(board)
    /\ UNCHANGED <<board, parsed, input, prompted, nApplied, pipe>>

\* board.Turn() on the line read from stdin, and main's handling of its
\* result.
MainTurn(line) ==
    /\ pc = "turn"
    /\ LET t == Turn(board, line)
       IN  /\ prompted' = playerTurn(board)
           /\ input' = line
           /\ board' = t.board
           /\ IF t.panic
              THEN /\ pc' = "panic"
                   /\ UNCHANGED <<parsed, nApplied>>
              ELSE /\ pc' = mainAfterTurn(t.board, t.v.err)
                   /\ parsed' = t.v
                   /\ nApplied' = IF t.v.err = ErrNil THEN nApplied + 1
                                  ELSE nApplied
    /\ UNCHANGED screen

PlayTurn ==
    /\ nApplied < MaxMoves
    /\ \E line \in Lines : MainTurn(line)
    /\ UNCHANGED pipe

Next == MainRender \/ PlayTurn

Spec == Init /\ [][Next]_vars

(***************************************************************************)
(* Filling the board: the players read the rendered labels and take the    *)
(* first Available cell in row-major order until none is left, with        *)
(* mistyped lines in between; afterwards they type any line of Lines.      *)
(***************************************************************************)
FirstAvailable(b) ==
    LET free == {p \in (1..(gridSize - 1)) \X (1..(gridSize - 1)) :
                     b.Rows[p[1]][p[2]].Status = Available}
    IN  CHOOSE p \in free :
            \A q \in free : p[1] < q[1] \/ (p[1] = q[1] /\ p[2] <= q[2])

\* The line spelled by the labels Render printed for row i and column j.
LabelLine(i, j) == screen[0][j] \o screen[i][0] \o <<10>>

FillLines ==
    IF Exhausted(board)
    THEN Lines
    ELSE { LabelLine(FirstAvailable(board)[1], FirstAvailable(board)[2]),
           <<65, 10>>, <<65, 57, 10>> }

FillTurn ==
    /\ pc = "turn"
    /\ nApplied < (gridSize - 1) * (gridSize - 1) + ExtraMoves
    /\ \E line \in FillLines : MainTurn(line)
    /\ UNCHANGED pipe

NextFill == MainRender \/ FillTurn

SpecFill == Init /\ [][NextFill]_vars

(***************************************************************************)
(* Parsing: every line made of one of the letters A..I, Z, a and one of    *)
(* the ten digits is typed.                                                *)
(***************************************************************************)
ParseLetters == (65..73) \cup {90, 97}

ParseDigits == 48..57

ParseLines == {<<l, d, 10>> : l \in ParseLetters, d \in ParseDigits}

ParseTurn ==
    /\ nApplied < ParseMoves
    /\ \E line \in ParseLines : MainTurn(line)
    /\ UNCHANGED pipe

NextParse == MainRender \/ ParseTurn

SpecParse == Init /\ [][NextParse]_vars

(***************************************************************************)
(* A piped standard input: all of its bytes are written ahead of the       *)
(* reads and the stream is closed behind them.                             *)
(***************************************************************************)
\* The number of bytes of rest up to and including its first newline, or
\* all of rest when it has none.
RECURSIVE LineLen(_)
LineLen(rest) ==
    IF rest = <<>> THEN 0
    ELSE IF Head(rest) = 10 THEN 1
    ELSE 1 + LineLen(Tail(rest))

\* captureInput on a pipe whose unread bytes are rest: a fresh reader is
\* built, its Read calls take the line and surplus more bytes from the pipe
\* into the reader's buffer, ReadString returns the line (the error at end of
\* input is dropped), and the surplus is lost with the reader.
captureInput(rest, surplus) ==
    [s    |-> SubSeq(rest, 1, LineLen(rest)),
     read |-> LineLen(rest) + surplus]

\* The surplus a read of the pipe can take: any part of what follows the
\* line, as much as was written when Read was called and fits the buffer.
Surpluses(rest) ==
    {k \in 0..(Len(rest) - LineLen(rest)) :
        LineLen(rest) + k <= defaultBufSize}

\* "A1", "B1", "A" and "A9", each ended by a newline.
PipeLines == { <<65, 49, 10>>, <<66, 49, 10>>, <<65, 10>>, <<65, 57, 10>> }

RECURSIVE Streams(_)
Streams(n) ==
    IF n = 0 THEN {<<>>}
    ELSE Streams(n - 1) \cup
         {l \o t : l \in PipeLines, t \in Streams(n - 1)}

PipeTurn ==
    /\ pc = "turn"
    /\ LET rest == SubSeq(stdin, offset + 1, Len(stdin))
       IN  \E surplus \in Surpluses(rest) :
               LET r == captureInput(rest, surplus)
               IN  /\ MainTurn(r.s)
                   /\ offset' = offset + r.read
                   /\ nReads' = IF r.s # <<>> THEN nReads + 1 ELSE nReads
    /\ UNCHANGED stdin

InitPipe == \E stream \in Streams(MaxPipeLines) : InitOn(stream)

NextPipe == MainRender \/ PipeTurn

SpecPipe == InitPipe /\ [][NextPipe]_vars

\* main moves on from the call it is at: each step of NextPipe is taken at
\* "render" or at "turn", is possible there and changes pc.
MainStep ==
    /\ pc \in {"render", "turn"}
    /\ pc' \in {"render", "turn", "panic", "exit"}
    /\ pc' # pc

\* main is the only thread of the process and runs whenever it can.
SpecPipeFair == InitPipe /\ [][NextPipe]_vars /\ WF_pc(MainStep)

(***************************************************************************)
(* Vocabulary of the properties.                                           *)
(***************************************************************************)
\* The playable grid: rows 1..8 and columns A..H.
Playable == 1..8

\* The line names a cell of the playable grid, A1..H8.
HasDest(line) ==
    LET t == TrimSpace(line)
    IN  Len(t) = 2 /\ t[1] \in 65..72 /\ t[2] \in 49..56

DestRow(line) == TrimSpace(line)[2] - 48

DestCol(line) == TrimSpace(line)[1] - 64

\* The mark of the player to move on board b.
MoverMark(b) == IF b.playerOneTurn THEN Player1Occupied ELSE Player2Occupied

\* The recorded position of the player to move on board b.
MoverPos(b) ==
    IF b.playerOneTurn THEN <<b.playerOneRow, b.playerOneCol>>
    ELSE <<b.playerTwoRow, b.playerTwoCol>>

CellsWith(b, status) ==
    {p \in (0..(gridSize - 1)) \X (0..(gridSize - 1)) :
        b.Rows[p[1]][p[2]].Status = status}

\* Available is 0, either Occupied mark is 1, Block is 2.
Rank(c) ==
    IF c.Status = Available THEN 0 ELSE IF c.Status = Block THEN 2 ELSE 1

\* A step of Turn that returned nil, and one that returned an error.
AppliedStep == pc = "turn" /\ nApplied' = nApplied + 1

RejectedStep == pc = "turn" /\ pc' = "render" /\ parsed'.err # ErrNil

(***************************************************************************)
(* Properties.                                                             *)
(***************************************************************************)
\* C1: a submitted move is applied exactly when its destination lies in the
\* playable grid and the destination cell is Available; a move onto a
\* Blocked cell, the opponent's cell or the mover's own cell is rejected.
C1_AppliedIffEmptyDestination ==
    [][pc = "turn" /\ pc' # "turn" =>
          (AppliedStep <=>
              /\ HasDest(input')
              /\ board.Rows[DestRow(input')][DestCol(input')].Status
                     = Available)]_vars

\* C2: every token validateInput accepts is a cell of the playable 8x8
\* board, so move never indexes outside Rows and no input crashes the program.
C2_NoInputCrashes == pc # "panic"

\* C3: a cell only moves forward along Empty -> Occupied -> Blocked; a
\* Blocked cell stays Blocked.
C3_CellsOnlyMoveForward ==
    [][\A i \in 0..(gridSize - 1), j \in 0..(gridSize - 1) :
          Rank(board'.Rows[i][j]) >= Rank(board.Rows[i][j])]_vars

\* C4: after N applied moves, rejected inputs interleaved, PlayerOne is to
\* move iff N is even; playerOneTurn flips exactly once per applied move and
\* never on a rejected input.
C4_TurnAlternation ==
    /\ [](board.playerOneTurn = (nApplied % 2 = 0))
    /\ [][/\ nApplied' = nApplied + 1 =>
                board'.playerOneTurn = ~board.playerOneTurn
          /\ nApplied' = nApplied =>
                board'.playerOneTurn = board.playerOneTurn]_vars

C4_Witness ==
    /\ nApplied = 3
    /\ ~board.playerOneTurn
    /\ parsed.err = ErrColumn
    /\ pc = "render"

\* C5: when Turn returns an error the board (cells, positions, turn flag) is
\* unchanged, no move is counted, and the next prompt names the same player.
C5_RejectLeavesStateUnchanged ==
    [][/\ RejectedStep => board' = board /\ nApplied' = nApplied
       /\ (pc = "turn" /\ parsed.err \notin {"none", ErrNil}) =>
              prompted' = prompted]_vars

C5_Witness ==
    /\ nApplied = 2
    /\ parsed.err = ErrRow
    /\ prompted = "Player One"
    /\ pc = "turn"

\* C6: at most one cell is marked Occupied by each player, and right after
\* an applied move of player X exactly one cell is marked Occupied-by-X.
C6_OneCellPerPlayer ==
    /\ Cardinality(CellsWith(board, Player1Occupied)) <= 1
    /\ Cardinality(CellsWith(board, Player2Occupied)) <= 1
    /\ (pc = "render" /\ parsed.err = ErrNil) =>
           Cardinality(CellsWith(board,
               IF board.playerOneTurn THEN Player2Occupied
               ELSE Player1Occupied)) = 1

C6_Witness ==
    /\ nApplied = 4
    /\ pc = "render"
    /\ parsed.err = ErrNil
    /\ Cardinality(CellsWith(board, Block)) = 2
    /\ Cardinality(CellsWith(board, Player1Occupied)) = 1
    /\ Cardinality(CellsWith(board, Player2Occupied)) = 1

\* C7: on every applied move that is the mover's second or later move,
\* exactly one cell becomes newly Blocked, the mover's previous cell, and the
\* number of Blocked cells grows by exactly one.
C7_ExactlyOneNewBlock ==
    [][(AppliedStep /\ nApplied >= 2) =>
          /\ CellsWith(board', Block) \ CellsWith(board, Block)
                 = {MoverPos(board)}
          /\ Cardinality(CellsWith(board', Block))
                 = Cardinality(CellsWith(board, Block)) + 1]_vars

\* C8: once no Available cell remains on the playable grid the game is
\* Finished instead of awaiting the other player's move.
C8_ExhaustedGridFinishes ==
    (Exhausted(board) /\ pc # "panic") => pc = "exit"

\* C8, amended: the move that exhausts the playable grid is followed like any
\* other by a render and a prompt of the other player; main never leaves its
\* loop.
C8_ExhaustedGridKeepsPrompting ==
    /\ [](pc # "exit")
    /\ [][/\ (AppliedStep /\ Exhausted(board')) =>
                 /\ pc' = "render"
                 /\ board'.playerOneTurn = ~board.playerOneTurn
          /\ (pc = "turn" /\ Exhausted(board) /\ parsed.err = ErrNil) =>
                 prompted' # prompted]_vars

C8_Witness ==
    /\ Exhausted(board)
    /\ nApplied = (gridSize - 1) * (gridSize - 1)
    /\ pc = "turn"
    /\ prompted = "Player Two"
    /\ board.playerOneTurn
    /\ HasDest(input)

C10_ParseInvertsLabels ==
    screen # <<>> =>
        /\ \A i \in Playable, j \in Playable :
               validateInput(screen[0][j] \o screen[i][0])
                   = [row |-> i, column |-> j, err |-> ErrNil]
        /\ (pc = "render" /\ parsed.err = ErrNil /\ HasDest(input)) =>
               /\ screen[0][parsed.column] \o screen[parsed.row][0]
                      = TrimSpace(input)
               /\ MoverPos([board EXCEPT !.playerOneTurn =
                                             ~board.playerOneTurn])
                      = <<parsed.row, parsed.column>>

C10_Witness ==
    /\ screen # <<>>
    /\ input = <<72, 56, 10>>
    /\ parsed = [row |-> 8, column |-> 8, err |-> ErrNil]
    /\ board.Rows[8][8].Status = Player1Occupied

\* C11: validateInput rejects, each with its own error and without a
\* position, every trimmed token that is not two bytes long, every token
\* whose row part is not a number or is outside 1..8, and every token whose
\* column letter is not one of A..H.
C11_RejectsBadTokens ==
    [][(pc = "turn" /\ pc' # "turn") =>
          LET t == TrimSpace(input')
              expected ==
                  IF Len(t) # 2 THEN {ErrNotPosition}
                  ELSE (IF ~IsDigit(t[2]) THEN {ErrNotSerious} ELSE {})
                       \cup (IF IsDigit(t[2]) /\ t[2] \notin 49..56
                             THEN {ErrRow} ELSE {})
                       \cup (IF t[1] \notin 65..72 THEN {ErrColumn} ELSE {})
          IN  expected # {} =>
                  /\ pc' = "render"
                  /\ parsed'.err \in expected
                  /\ parsed'.row = -1
                  /\ parsed'.column = -1]_vars

\* C12: the game starts with PlayerOne to move, every cell Available and no
\* position recorded, and neither player's first move blocks a cell: up to
\* and after the second applied move no cell is Blocked.
C12_FirstMovesBlockNothing ==
    /\ nApplied = 0 =>
           /\ board.playerOneTurn
           /\ \A i \in 0..(gridSize - 1), j \in 0..(gridSize - 1) :
                  board.Rows[i][j].Status = Available
           /\ MoverPos(board) = <<0, 0>>
           /\ board.playerTwoRow = 0 /\ board.playerTwoCol = 0
    /\ (nApplied <= 2 /\ pc # "panic") => CellsWith(board, Block) = {}

C12_Witness ==
    /\ nApplied = 2
    /\ pc = "turn"
    /\ board.playerOneTurn
    /\ Cardinality(CellsWith(board, Player1Occupied)) = 1
    /\ Cardinality(CellsWith(board, Player2Occupied)) = 1
    /\ CellsWith(board, Block) = {}

\* Every byte of the piped standard input has been read: no more input will
\* ever arrive.
AtEof == offset = Len(stdin)

\* C13: once the input stream is at end of input the main loop eventually
\* terminates.
C13_EofEndsTheLoop == AtEof ~> (pc \in {"exit", "panic"})

\* C13, amended: at end of input the process never shuts down; every further
\* captureInput returns the empty string, Turn returns the not-a-valid-position
\* error without changing the board, and main renders and prompts again, for
\* ever.
C13_EofLoopsForever ==
    /\ [](pc # "exit")
    /\ [][(pc = "turn" /\ AtEof) =>
             /\ input' = <<>>
             /\ parsed'.err = ErrNotPosition
             /\ board' = board
             /\ nApplied' = nApplied
             /\ pc' = "render"]_vars
    /\ (AtEof /\ pc # "panic") ~> (pc = "render" /\ input = <<>>)
    /\ (AtEof /\ pc # "panic") ~> (pc = "turn")

C13_Witness ==
    /\ AtEof
    /\ Len(stdin) > 0
    /\ nApplied = MaxPipeLines
    /\ input = <<>>
    /\ parsed.err = ErrNotPosition
    /\ pc = "turn"

\* C14: the board is rendered before every prompt: a prompt is issued only
\* with the render of the current board on the screen, first the all-empty
\* board, and every turn attempt, applied or rejected, is followed by a
\* render.
C14_RenderBeforeEveryPrompt ==
    /\ [](pc = "turn" => screen = Render(board))
    /\ []((pc = "turn" /\ prompted = "") => screen = Render(newBoard))
    /\ [][pc = "turn" => pc' \in {"render", "panic"}]_vars

C14_Witness ==
    /\ pc = "turn"
    /\ nApplied = 1
    /\ parsed.err = ErrNotSerious
    /\ prompted = "Player Two"
    /\ screen[1][1] = <<88>>

\* C15: every cell's Status is one of the four defined values, so the panic
\* of Cell.Render is never reached: the only panic is the one of move on a
\* destination outside Rows.
C15_StatusIsDefined ==
    /\ \A i \in 0..(gridSize - 1), j \in 0..(gridSize - 1) :
           board.Rows[i][j].Status
               \in {Available, Player1Occupied, Player2Occupied, Block}
    /\ ~RenderPanics(board)
    /\ pc = "panic" =>
           LET v == validateInput(TrimSpace(input))
           IN  v.err = ErrNil /\ ~InRows(v.row, v.column)

C15_Witness ==
    /\ pc = "turn"
    /\ nApplied = 3
    /\ Cardinality(CellsWith(board, Block)) = 1
    /\ Cardinality(CellsWith(board, Player1Occupied)) = 1
    /\ Cardinality(CellsWith(board, Player2Occupied)) = 1
    /\ screen[1][1] = <<126>>

\* C16: an applied move of player X marks the destination Occupied-by-X and
\* records it as X's position, changes at most one other cell, X's previous
\* cell, and leaves every other cell and the other player's position as they
\* were.
C16_MoveFrame ==
    [][AppliedStep =>
          LET dest == <<DestRow(input'), DestCol(input')>>
              old  == MoverPos(board)
              was  == [board' EXCEPT !.playerOneTurn = board.playerOneTurn]
          IN  /\ HasDest(input')
              /\ dest = <<parsed'.row, parsed'.column>>
              /\ board'.Rows[parsed'.row][parsed'.column].Status
                     = MoverMark(board)
              /\ MoverPos(was) = <<parsed'.row, parsed'.column>>
              /\ \A i \in 0..(gridSize - 1) :
                     IF i \notin {parsed'.row, old[1]}
                     THEN board'.Rows[i] = board.Rows[i]
                     ELSE \A j \in 0..(gridSize - 1) :
                              <<i, j>> \notin
                                  {<<parsed'.row, parsed'.column>>, old} =>
                                      board'.Rows[i][j] = board.Rows[i][j]
              /\ IF board.playerOneTurn
                 THEN /\ board'.playerTwoRow = board.playerTwoRow
                      /\ board'.playerTwoCol = board.playerTwoCol
                 ELSE /\ board'.playerOneRow = board.playerOneRow
                      /\ board'.playerOneCol = board.playerOneCol]_vars

C16_Witness ==
    /\ pc = "render"
    /\ nApplied = 3
    /\ parsed = [row |-> 2, column |-> 2, err |-> ErrNil]
    /\ board.Rows[2][2].Status = Player1Occupied
    /\ board.Rows[1][1].Status = Block
    /\ board.Rows[1][2].Status = Player2Occupied

\* The lines of a stream: each ends with its newline, the last one possibly
\* without.
RECURSIVE SplitLines(_)
SplitLines(stream) ==
    IF stream = <<>> THEN <<>>
    ELSE <<SubSeq(stream, 1, LineLen(stream))>>
         \o SplitLines(SubSeq(stream, LineLen(stream) + 1, Len(stream)))

\* C17: the i-th call of captureInput returns the i-th line of the stream,
\* and no line is skipped or dropped: at end of input every line was
\* returned.
C17_EveryLineIsRead ==
    /\ (nReads > 0 /\ input # <<>>) =>
           /\ nReads <= Len(SplitLines(stdin))
           /\ input = SplitLines(stdin)[nReads]
    /\ AtEof => nReads = Len(SplitLines(stdin))

\* C18: the recorded position of each player who has moved is a cell that
\* carries that player's Occupied mark.
C18_PositionCarriesOwnMark ==
    pc # "panic" =>
        /\ nApplied >= 1 =>
               board.Rows[board.playerOneRow][board.playerOneCol].Status
                   = Player1Occupied
        /\ nApplied >= 2 =>
               board.Rows[board.playerTwoRow][board.playerTwoCol].Status
                   = Player2Occupied

\* C19: every accepted move has row >= 1 and column >= 1, the label cells of
\* row 0 and column 0 stay Available, and playerXRow > 0 holds exactly when
\* player X has made a move.
C19_LabelCellsStayAvailable ==
    /\ parsed.err = ErrNil => parsed.row >= 1 /\ parsed.column >= 1
    /\ \A k \in 0..(gridSize - 1) :
           /\ board.Rows[0][k].Status = Available
           /\ board.Rows[k][0].Status = Available
    /\ (board.playerOneRow > 0) <=> (nApplied >= 1)
    /\ (board.playerTwoRow > 0) <=> (nApplied >= 2)

C19_Witness ==
    /\ nApplied = 1
    /\ board.playerOneRow > 0
    /\ board.playerTwoRow = 0
    /\ input = <<65, 48, 10>>
    /\ parsed.err = ErrRow
    /\ pc = "render"

====
